---- MODULE Spec2Model ----
(***************************************************************************)
(* Model of the two WebRTC latency demos of this repository:               *)
(*   webrtc/src/offer.rs   the Initiator (creates the offer, sends Pings,  *)
(*                         reports RTT)                                    *)
(*   webrtc/src/answer.rs  the Responder (answers, echoes 16-byte frames,  *)
(*                         sends a Text heartbeat)                         *)
(* Text is a sequence of character codes, a frame a sequence of bytes.     *)
(* The peer-connection library, stdin/stdout and the clock are the         *)
(* environment; each statement of main that awaits is one step.            *)
(***************************************************************************)
EXTENDS Integers, Sequences, FiniteSets, TLC

\* ------------------------------------------------------------------ bounds
\* most frames in flight in one direction of the data channel
MaxQueue == 1
\* longest descriptor body the handshake is checked with
MaxSdpLen == 2
\* most frames a remote endpoint other than the demo peer puts on the channel
MaxForeign == 1

\* ------------------------------------------------------- program constants
\* width of a timing frame: u128::to_le_bytes
FrameLen == 16

None == "none"
\* no descriptor (yet)
NoDesc == [type |-> None, sdp |-> <<>>]
\* nothing sent or handled yet
NoPing == [frame |-> <<>>, clock |-> 0]
NoFrame == [who |-> None, did |-> [kind |-> None]]

\* -------------------------------------------------------------- characters
NL == 10
CR == 13
TAB == 9
SPACE == 32
QUOTE == 34
BACKSLASH == 92
LBRACE == 123
RBRACE == 125
COLON == 58
COMMA == 44
\* '=' : the base64 padding character
PAD == 61
\* U+FFFD, what from_utf8_lossy puts for an invalid byte
REPLACEMENT == 65533

RECURSIVE Concat(_)
Concat(ss) == IF ss = <<>> THEN <<>> ELSE Head(ss) \o Concat(Tail(ss))

\* ------------------------------------------------------------------ base64
\* base64::encode / base64::decode (standard alphabet, canonical padding)
B64Sym(v) ==
    IF v < 26 THEN 65 + v
    ELSE IF v < 52 THEN 97 + (v - 26)
    ELSE IF v < 62 THEN 48 + (v - 52)
    ELSE IF v = 62 THEN 43 ELSE 47

B64Val(c) ==
    IF c >= 65 /\ c <= 90 THEN c - 65
    ELSE IF c >= 97 /\ c <= 122 THEN c - 97 + 26
    ELSE IF c >= 48 /\ c <= 57 THEN c - 48 + 52
    ELSE IF c = 43 THEN 62
    ELSE IF c = 47 THEN 63
    ELSE -1

RECURSIVE Base64Encode(_)
Base64Encode(b) ==
    IF Len(b) = 0 THEN <<>>
    ELSE IF Len(b) = 1 THEN
        <<B64Sym(b[1] \div 4), B64Sym((b[1] % 4) * 16), PAD, PAD>>
    ELSE IF Len(b) = 2 THEN
        <<B64Sym(b[1] \div 4), B64Sym((b[1] % 4) * 16 + (b[2] \div 16)),
          B64Sym((b[2] % 16) * 4), PAD>>
    ELSE
        <<B64Sym(b[1] \div 4), B64Sym((b[1] % 4) * 16 + (b[2] \div 16)),
          B64Sym((b[2] % 16) * 4 + (b[3] \div 64)), B64Sym(b[3] % 64)>>
        \o Base64Encode(SubSeq(b, 4, Len(b)))

Err(e) == [ok |-> FALSE, err |-> e]
Ok(v) == [ok |-> TRUE, val |-> v]

\* one group of four symbols; padding is legal in the last group only
B64Group(g, last) ==
    LET v1 == B64Val(g[1])
        v2 == B64Val(g[2])
        v3 == B64Val(g[3])
        v4 == B64Val(g[4])
    IN  IF v1 < 0 \/ v2 < 0 THEN Err("MalformedDescriptor")
        ELSE IF g[3] = PAD /\ g[4] = PAD THEN
            IF last /\ v2 % 16 = 0 THEN Ok(<<v1 * 4 + (v2 \div 16)>>)
            ELSE Err("MalformedDescriptor")
        ELSE IF v3 < 0 THEN Err("MalformedDescriptor")
        ELSE IF g[4] = PAD THEN
            IF last /\ v3 % 4 = 0
            THEN Ok(<<v1 * 4 + (v2 \div 16), (v2 % 16) * 16 + (v3 \div 4)>>)
            ELSE Err("MalformedDescriptor")
        ELSE IF v4 < 0 THEN Err("MalformedDescriptor")
        ELSE Ok(<<v1 * 4 + (v2 \div 16), (v2 % 16) * 16 + (v3 \div 4),
                  (v3 % 4) * 64 + v4>>)

RECURSIVE Base64Decode(_)
Base64Decode(s) ==
    IF Len(s) = 0 THEN Ok(<<>>)
    ELSE IF Len(s) < 4 THEN Err("MalformedDescriptor")
    ELSE LET g == B64Group(SubSeq(s, 1, 4), Len(s) = 4)
         IN  IF ~g.ok THEN g
             ELSE LET rest == Base64Decode(SubSeq(s, 5, Len(s)))
                  IN  IF ~rest.ok THEN rest ELSE Ok(g.val \o rest.val)

\* ------------------------------------------------------------------- UTF-8
\* The bytes of this model are ASCII or 0xFF; 0xFF is valid nowhere in UTF-8.
\* String::from_utf8
FromUtf8(b) ==
    IF \A i \in 1..Len(b) : b[i] < 128 THEN Ok(b) ELSE Err("MalformedDescriptor")

\* String::from_utf8_lossy: each invalid byte becomes U+FFFD, never an error
FromUtf8Lossy(b) == [i \in 1..Len(b) |-> IF b[i] < 128 THEN b[i] ELSE REPLACEMENT]

\* str::trim: white space off both ends
IsSpace(c) == c \in {TAB, NL, 11, 12, CR, SPACE}

RECURSIVE TrimStart(_)
TrimStart(s) == IF s # <<>> /\ IsSpace(Head(s)) THEN TrimStart(Tail(s)) ELSE s

RECURSIVE TrimEnd(_)
TrimEnd(s) ==
    IF s # <<>> /\ IsSpace(s[Len(s)]) THEN TrimEnd(SubSeq(s, 1, Len(s) - 1)) ELSE s

Trim(s) == TrimEnd(TrimStart(s))

\* Stdin::read_line: the input through its first newline, or all of it at EOF
RECURSIVE ReadLine(_)
ReadLine(input) ==
    IF input = <<>> THEN <<>>
    ELSE IF Head(input) = NL THEN <<NL>>
    ELSE <<Head(input)>> \o ReadLine(Tail(input))

\* -------------------------------------------------------------------- JSON
\* A session descriptor is [type, sdp]: RTCSessionDescription's serialized
\* fields (sdp_type under the name "type", then sdp).
KeyType == <<116, 121, 112, 101>>
KeySdp == <<115, 100, 112>>
NameOffer == <<111, 102, 102, 101, 114>>
NameAnswer == <<97, 110, 115, 119, 101, 114>>
NamePranswer == <<112, 114>> \o NameAnswer
NameRollback == <<114, 111, 108, 108, 98, 97, 99, 107>>

SdpTypes == {"offer", "pranswer", "answer", "rollback"}

TypeName(t) ==
    CASE t = "offer" -> NameOffer
      [] t = "pranswer" -> NamePranswer
      [] t = "answer" -> NameAnswer
      [] t = "rollback" -> NameRollback

HexDigit(v) == IF v < 10 THEN 48 + v ELSE 97 + (v - 10)

HexVal(c) ==
    IF c >= 48 /\ c <= 57 THEN c - 48
    ELSE IF c >= 97 /\ c <= 102 THEN c - 97 + 10
    ELSE IF c >= 65 /\ c <= 70 THEN c - 65 + 10
    ELSE -1

\* serde_json's string escapes
JsonEscape(c) ==
    CASE c = QUOTE -> <<BACKSLASH, QUOTE>>
      [] c = BACKSLASH -> <<BACKSLASH, BACKSLASH>>
      [] c = NL -> <<BACKSLASH, 110>>
      [] c = CR -> <<BACKSLASH, 114>>
      [] c = TAB -> <<BACKSLASH, 116>>
      [] c = 8 -> <<BACKSLASH, 98>>
      [] c = 12 -> <<BACKSLASH, 102>>
      [] c < 32 /\ c \notin {NL, CR, TAB, 8, 12} ->
            <<BACKSLASH, 117, 48, 48, HexDigit(c \div 16), HexDigit(c % 16)>>
      [] OTHER -> <<c>>

JsonString(s) == <<QUOTE>> \o Concat([i \in 1..Len(s) |-> JsonEscape(s[i])]) \o <<QUOTE>>

\* serde_json::to_string(&descriptor)
ToJson(d) ==
    <<LBRACE>> \o JsonString(KeyType) \o <<COLON>> \o JsonString(TypeName(d.type))
    \o <<COMMA>> \o JsonString(KeySdp) \o <<COLON>> \o JsonString(d.sdp) \o <<RBRACE>>

RECURSIVE SkipWs(_, _)
SkipWs(s, i) ==
    IF i <= Len(s) /\ s[i] \in {SPACE, TAB, NL, CR} THEN SkipWs(s, i + 1) ELSE i

Unescape(e) ==
    CASE e = QUOTE -> QUOTE
      [] e = BACKSLASH -> BACKSLASH
      [] e = 47 -> 47
      [] e = 110 -> NL
      [] e = 114 -> CR
      [] e = 116 -> TAB
      [] e = 98 -> 8
      [] e = 102 -> 12
      [] OTHER -> -1

\* the characters of a JSON string from position i (after the opening quote):
\* [ok, val, next], next the position after the closing quote
RECURSIVE JsonStringBody(_, _, _)
JsonStringBody(s, i, acc) ==
    IF i > Len(s) THEN [ok |-> FALSE, val |-> acc, next |-> i]
    ELSE IF s[i] = QUOTE THEN [ok |-> TRUE, val |-> acc, next |-> i + 1]
    ELSE IF s[i] < 32 THEN [ok |-> FALSE, val |-> acc, next |-> i]
    ELSE IF s[i] # BACKSLASH THEN JsonStringBody(s, i + 1, Append(acc, s[i]))
    ELSE IF i + 1 > Len(s) THEN [ok |-> FALSE, val |-> acc, next |-> i]
    ELSE IF s[i + 1] = 117 THEN
        IF i + 5 > Len(s) \/ \E k \in 2..5 : HexVal(s[i + k]) < 0
        THEN [ok |-> FALSE, val |-> acc, next |-> i]
        ELSE JsonStringBody(s, i + 6,
                 Append(acc, ((HexVal(s[i + 2]) * 16 + HexVal(s[i + 3])) * 16
                              + HexVal(s[i + 4])) * 16 + HexVal(s[i + 5])))
    ELSE IF Unescape(s[i + 1]) < 0 THEN [ok |-> FALSE, val |-> acc, next |-> i]
    ELSE JsonStringBody(s, i + 2, Append(acc, Unescape(s[i + 1])))

JsonStringAt(s, i) ==
    IF i <= Len(s) /\ s[i] = QUOTE THEN JsonStringBody(s, i + 1, <<>>)
    ELSE [ok |-> FALSE, val |-> <<>>, next |-> i]

TypeOfName(n) ==
    IF \E t \in SdpTypes : TypeName(t) = n
    THEN CHOOSE t \in SdpTypes : TypeName(t) = n
    ELSE None

\* the members of an object from position i: key ":" string ("," ...)* "}",
\* a field given twice is an error, a field of another name is skipped;
\* type is None and sdp is <<>> until the field is read, then <<its value>>
RECURSIVE JsonMembers(_, _, _, _)
JsonMembers(s, i, type, sdp) ==
    LET k == JsonStringAt(s, SkipWs(s, i))
        c == SkipWs(s, k.next)
        v == JsonStringAt(s, SkipWs(s, c + 1))
        e == SkipWs(s, v.next)
    IN  IF ~k.ok \/ c > Len(s) \/ s[c] # COLON \/ ~v.ok \/ e > Len(s)
        THEN Err("InvalidDescriptorBody")
        ELSE IF (k.val = KeyType /\ type # None) \/ (k.val = KeySdp /\ sdp # <<>>)
        THEN Err("InvalidDescriptorBody")
        ELSE IF k.val = KeyType /\ TypeOfName(v.val) = None
        THEN Err("InvalidDescriptorBody")
        ELSE LET type2 == IF k.val = KeyType THEN TypeOfName(v.val) ELSE type
                 sdp2 == IF k.val = KeySdp THEN <<v.val>> ELSE sdp
             IN  IF s[e] = COMMA THEN JsonMembers(s, e + 1, type2, sdp2)
                 ELSE IF s[e] # RBRACE \/ SkipWs(s, e + 1) <= Len(s)
                      \/ type2 = None \/ sdp2 = <<>>
                 THEN Err("InvalidDescriptorBody")
                 ELSE Ok([type |-> type2, sdp |-> sdp2[1]])

\* serde_json::from_str::<RTCSessionDescription>
FromJson(s) ==
    LET i == SkipWs(s, 1)
    IN  IF i > Len(s) \/ s[i] # LBRACE THEN Err("InvalidDescriptorBody")
        ELSE JsonMembers(s, i + 1, None, <<>>)

\* -------------------------------------------------------- Descriptor Codec
\* base64::encode(serde_json::to_string(&d)?): the text that println! emits
EncodeDescriptor(d) == Base64Encode(ToJson(d))

\* The mutant of DecodeLine: the line is decoded with its newline still on.
DecodeLineUntrimmed(line) ==
    LET b == Base64Decode(line)
    IN  IF ~b.ok THEN b
        ELSE LET t == FromUtf8(b.val) IN IF ~t.ok THEN t ELSE FromJson(t.val)

\* serde_json::from_str(&String::from_utf8(base64::decode(line.trim())?)?)?
DecodeLine(line) ==
    LET b == Base64Decode(Trim(line))
    IN  IF ~b.ok THEN b
        ELSE LET t == FromUtf8(b.val) IN IF ~t.ok THEN t ELSE FromJson(t.val)

\* ---------------------------------------------------------------- frames
\* u128::to_le_bytes: FrameLen bytes, least significant first
RECURSIVE LeBytes(_, _)
LeBytes(n, k) == IF k = 0 THEN <<>> ELSE <<n % 256>> \o LeBytes(n \div 256, k - 1)

ToLeBytes(n) == LeBytes(n, FrameLen)

\* u128::from_le_bytes
RECURSIVE FromLeBytes(_)
FromLeBytes(b) == IF b = <<>> THEN 0 ELSE Head(b) + 256 * FromLeBytes(Tail(b))

\* msg.data[..16].try_into().unwrap(): panics unless 16 bytes are there
Slice16(data) ==
    IF Len(data) >= FrameLen THEN Ok(SubSeq(data, 1, FrameLen)) ELSE Err("panic")

\* The mutant of SaturatingSub: a plain subtraction.
PlainSub(a, b) == a - b

\* u128::saturating_sub
SaturatingSub(a, b) == IF b > a THEN 0 ELSE a - b

RECURSIVE Digits(_)
Digits(n) == IF n < 10 THEN <<48 + n>> ELSE Digits(n \div 10) \o <<48 + (n % 10)>>

\* format!("{:.2}", rtt as f64 / 1_000_000.0): milliseconds, two decimals
FormatMs(rtt) ==
    LET h == (rtt + 5000) \div 10000
    IN  Digits(h \div 100) \o <<46, 48 + ((h % 100) \div 10), 48 + (h % 10)>>

\* "Hello at "
HelloAt == <<72, 101, 108, 108, 111, 32, 97, 116, 32>>
\* the Debug text of an Instant: Instant { tv_sec: s, tv_nsec: 0 }
InstantDebug(sec) ==
    <<73, 110, 115, 116, 97, 110, 116, 32, LBRACE, 32, 116, 118, 95, 115, 101, 99,
      COLON, 32>> \o Digits(sec)
    \o <<COMMA, 32, 116, 118, 95, 110, 115, 101, 99, COLON, 32, 48, 32, RBRACE>>


\* ------------------------------------------------------------- environment
\* the body the library gives the offer and the answer of a session
\* ("v=0\r\n" and a body of characters that JSON escapes)
OfferSdps == { <<118, 61, 48, CR, NL>> }
AnswerSdps == { <<97, QUOTE, BACKSLASH, 1>> }

\* the characters of the bodies the codec is checked with: plain, escaped
\* by a backslash, escaped by a letter, escaped as \u00XX
SdpChars == {97, QUOTE, BACKSLASH, NL, 1}
SeqsUpTo(S, n) == UNION { [1..k -> S] : k \in 0..n }
AnySdps == SeqsUpTo(SdpChars, MaxSdpLen)

\* text at the prompt that is no descriptor: end of input, an empty line,
\* no base64, base64 of no UTF-8, base64 of JSON of another shape
Garbage ==
    { <<>>, <<NL>>, <<33, 33, NL>>,
      Base64Encode(<<255>>) \o <<NL>>,
      Base64Encode(<<LBRACE, RBRACE>>) \o <<NL>> }

\* what the user may paste at the prompt, given the lines printed so far: a
\* line with blanks and CRLF around it, or cut short, or no descriptor
Pastes(lines) ==
    UNION { { <<SPACE>> \o TrimEnd(l) \o <<SPACE, CR, NL>>,
              SubSeq(l, 1, Len(l) - 2) \o <<NL>> } : l \in lines }
    \cup Garbage

\* the same, and the line exactly as printed
AnyPastes(lines) == Pastes(lines) \cup lines

\* frames a remote endpoint other than the demo peer may send: empty, and
\* 17 bytes the first of which is no UTF-8
ForeignFrames ==
    { <<>>, [i \in 1..(FrameLen + 1) |-> IF i = 1 THEN 255 ELSE 97] }

\* the readings of the Initiator's monotonic clock, ns: Instant::now()
ClockReadings == {1000, 2501000}
\* the values Instant::now().elapsed() returns, ns: the time between the
\* two calls
ElapsedReadings == {0, 1}
\* the reading of the Responder's monotonic clock that the heartbeat shows, s
AnswerInstants == {0}

\* ------------------------------------------------------------------- state
VARIABLES
    opc,          \* Initiator: position in main
    offer,        \* Initiator: the local variable offer
    oLocalDesc,   \* Initiator: the connection's local description
    oRemoteDesc,  \* Initiator: the connection's remote description
    oOut,         \* Initiator: the descriptor lines printed
    oLine,        \* Initiator: the local variable line
    oMalformed,   \* Initiator: the line read does not decode to a descriptor
    oAnswer,      \* Initiator: the local variable answer
    oTrace,       \* Initiator: handshake steps done, in order
    apc,          \* Responder: position in main
    answer,       \* Responder: the local variable answer
    aLocalDesc,   \* Responder: the connection's local description
    aRemoteDesc,  \* Responder: the connection's remote description
    aOut,         \* Responder: the descriptor lines printed
    aLine,        \* Responder: the local variable line
    aMalformed,   \* Responder: the line read does not decode to a descriptor
    aOffer,       \* Responder: the local variable offer
    aTrace,       \* Responder: handshake steps done, in order
    oChan,        \* ready state of the Initiator's data channel
    aChan,        \* ready state of the Responder's data channel
    i2r,          \* frames in flight, Initiator to Responder
    r2i,          \* frames in flight, Responder to Initiator
    pingPc,       \* the on_open sender loop
    pingFailed,   \* a send of the Ping loop has failed
    hbPc,         \* the heartbeat task
    hbFailed,     \* a send of the heartbeat task has failed
    hbOthers,     \* heartbeat tasks spawned for further data channels
    foreign,      \* frames put on the channel by another endpoint
    clock,        \* the Initiator's monotonic clock, ns, when last read
    lastPing,     \* the last Ping passed to send, and the clock then
    last          \* the receive callback that ran last, and what it did

oVars == <<opc, offer, oLocalDesc, oRemoteDesc, oOut, oLine, oMalformed, oAnswer, oTrace>>
aVars == <<apc, answer, aLocalDesc, aRemoteDesc, aOut, aLine, aMalformed, aOffer, aTrace>>
chanVars == <<oChan, aChan, i2r, r2i>>
pingVars == <<pingPc, pingFailed, lastPing>>
hbVars == <<hbPc, hbFailed, hbOthers>>
logVars == <<last>>
vars == <<oVars, aVars, chanVars, pingVars, hbVars, foreign, clock, logVars>>

Exited == {"exit_ok", "exit_err", "killed"}
OAlive == opc \notin Exited
AAlive == apc \notin Exited

Init ==
    /\ opc = "create_offer"
    /\ offer = NoDesc /\ oLocalDesc = NoDesc /\ oRemoteDesc = NoDesc
    /\ oOut = <<>> /\ oLine = <<>> /\ oMalformed = FALSE /\ oAnswer = NoDesc /\ oTrace = <<>>
    /\ apc = "read_line"
    /\ answer = NoDesc /\ aLocalDesc = NoDesc /\ aRemoteDesc = NoDesc
    /\ aOut = <<>> /\ aLine = <<>> /\ aMalformed = FALSE /\ aOffer = NoDesc /\ aTrace = <<>>
    /\ oChan = "connecting" /\ aChan = "connecting"
    /\ i2r = <<>> /\ r2i = <<>>
    /\ pingPc = "idle" /\ pingFailed = FALSE
    /\ hbPc = "idle" /\ hbFailed = FALSE /\ hbOthers = 0
    /\ foreign = 0
    /\ clock = 1000
    /\ lastPing = NoPing /\ last = NoFrame

Range(q) == {q[i] : i \in 1..Len(q)}

\* --------------------------------------------------- Initiator: handshake
\* main returns: the runtime drops the tasks and the connection with it
OfferStop(pc) ==
    /\ opc' = pc
    /\ oChan' = "closed"

\* pc.create_offer(None).await?, the body one of bodies
OfferCreate(bodies) ==
    /\ opc = "create_offer"
    /\ \E s \in bodies : offer' = [type |-> "offer", sdp |-> s]
    /\ opc' = "set_local"
    /\ oTrace' = Append(oTrace, "create_offer")
    /\ UNCHANGED <<oLocalDesc, oRemoteDesc, oOut, oLine, oMalformed, oAnswer>>
    /\ UNCHANGED <<aVars, chanVars, pingVars, hbVars, foreign, clock, logVars>>

\* The mutant of OfferSetLocal: the offer is set and the answer is read
\* before the offer is printed.
OfferSetLocalThenRead ==
    /\ opc = "set_local"
    /\ oLocalDesc' = offer
    /\ opc' = "read_line"
    /\ oTrace' = Append(oTrace, "set_local")
    /\ UNCHANGED <<offer, oRemoteDesc, oOut, oLine, oMalformed, oAnswer>>
    /\ UNCHANGED <<aVars, chanVars, pingVars, hbVars, foreign, clock, logVars>>

\* pc.set_local_description(offer.clone()).await?
OfferSetLocal ==
    /\ opc = "set_local"
    /\ oLocalDesc' = offer
    /\ opc' = "emit"
    /\ oTrace' = Append(oTrace, "set_local")
    /\ UNCHANGED <<offer, oRemoteDesc, oOut, oLine, oMalformed, oAnswer>>
    /\ UNCHANGED <<aVars, chanVars, pingVars, hbVars, foreign, clock, logVars>>

\* println!("{}", base64::encode(serde_json::to_string(&offer)?))
OfferEmit ==
    /\ opc = "emit"
    /\ oOut' = Append(oOut, EncodeDescriptor(offer) \o <<NL>>)
    /\ opc' = "read_line"
    /\ oTrace' = Append(oTrace, "emit")
    /\ UNCHANGED <<offer, oLocalDesc, oRemoteDesc, oLine, oMalformed, oAnswer>>
    /\ UNCHANGED <<aVars, chanVars, pingVars, hbVars, foreign, clock, logVars>>

\* io::stdin().read_line(&mut line)?, the input one of inputs
OfferRead(inputs) ==
    /\ opc = "read_line"
    /\ \E input \in inputs : oLine' = ReadLine(input)
    /\ oMalformed' = ~DecodeLine(oLine').ok
    /\ opc' = "decode"
    /\ oTrace' = Append(oTrace, "read_line")
    /\ UNCHANGED <<offer, oLocalDesc, oRemoteDesc, oOut, oAnswer>>
    /\ UNCHANGED <<aVars, chanVars, pingVars, hbVars, foreign, clock, logVars>>

\* The mutant of OfferDecode: a line that does not decode is asked for again.
OfferDecodeRetry ==
    /\ opc = "decode"
    /\ LET r == DecodeLine(oLine)
       IN  IF r.ok
           THEN /\ oAnswer' = r.val
                /\ opc' = "set_remote"
                /\ oTrace' = Append(oTrace, "decode")
                /\ UNCHANGED oChan
           ELSE /\ opc' = "read_line"
                /\ UNCHANGED <<oAnswer, oTrace, oChan>>
    /\ UNCHANGED <<offer, oLocalDesc, oRemoteDesc, oOut, oLine, oMalformed>>
    /\ UNCHANGED <<aVars, aChan, i2r, r2i, pingVars, hbVars, foreign, clock, logVars>>

\* let answer = serde_json::from_str(&String::from_utf8(base64::decode(..)?)?)?
OfferDecode ==
    /\ opc = "decode"
    /\ LET r == DecodeLine(oLine)
       IN  IF r.ok
           THEN /\ oAnswer' = r.val
                /\ opc' = "set_remote"
                /\ oTrace' = Append(oTrace, "decode")
                /\ UNCHANGED oChan
           ELSE /\ OfferStop("exit_err")
                /\ UNCHANGED <<oAnswer, oTrace>>
    /\ UNCHANGED <<offer, oLocalDesc, oRemoteDesc, oOut, oLine, oMalformed>>
    /\ UNCHANGED <<aVars, aChan, i2r, r2i, pingVars, hbVars, foreign, clock, logVars>>

\* pc.set_remote_description(answer).await?: with a local offer set, the
\* library takes an answer and refuses an offer
OfferSetRemote ==
    /\ opc = "set_remote"
    /\ IF oAnswer.type = "answer"
       THEN /\ oRemoteDesc' = oAnswer
            /\ opc' = "wait"
            /\ oTrace' = Append(oTrace, "set_remote")
            /\ UNCHANGED oChan
       ELSE /\ OfferStop("exit_err")
            /\ UNCHANGED <<oRemoteDesc, oTrace>>
    /\ UNCHANGED <<offer, oLocalDesc, oOut, oLine, oMalformed, oAnswer>>
    /\ UNCHANGED <<aVars, aChan, i2r, r2i, pingVars, hbVars, foreign, clock, logVars>>

\* the ? of a library call: create_offer, set_local_description or
\* set_remote_description returns an error and main returns it
OfferLibraryError ==
    /\ opc \in {"create_offer", "set_local", "set_remote"}
    /\ OfferStop("exit_err")
    /\ UNCHANGED <<offer, oLocalDesc, oRemoteDesc, oOut, oLine, oMalformed, oAnswer, oTrace>>
    /\ UNCHANGED <<aVars, aChan, i2r, r2i, pingVars, hbVars, foreign, clock, logVars>>

\* tokio::signal::ctrl_c().await?; Ok(()): the interrupt ends main. Before
\* that line no handler is installed and the interrupt kills the process.
OfferInterrupt ==
    /\ OAlive
    /\ OfferStop(IF opc = "wait" THEN "exit_ok" ELSE "killed")
    /\ UNCHANGED <<offer, oLocalDesc, oRemoteDesc, oOut, oLine, oMalformed, oAnswer, oTrace>>
    /\ UNCHANGED <<aVars, aChan, i2r, r2i, pingVars, hbVars, foreign, clock, logVars>>

\* --------------------------------------------------- Responder: handshake
AnswerStop(pc) ==
    /\ apc' = pc
    /\ aChan' = "closed"

\* io::stdin().read_line(&mut line)?, the input one of inputs
AnswerRead(inputs) ==
    /\ apc = "read_line"
    /\ \E input \in inputs : aLine' = ReadLine(input)
    /\ aMalformed' = ~DecodeLine(aLine').ok
    /\ apc' = "decode"
    /\ aTrace' = Append(aTrace, "read_line")
    /\ UNCHANGED <<answer, aLocalDesc, aRemoteDesc, aOut, aOffer>>
    /\ UNCHANGED <<oVars, chanVars, pingVars, hbVars, foreign, clock, logVars>>

\* let offer = serde_json::from_str(&String::from_utf8(base64::decode(..)?)?)?
AnswerDecode ==
    /\ apc = "decode"
    /\ LET r == DecodeLine(aLine)
       IN  IF r.ok
           THEN /\ aOffer' = r.val
                /\ apc' = "set_remote"
                /\ aTrace' = Append(aTrace, "decode")
                /\ UNCHANGED aChan
           ELSE /\ AnswerStop("exit_err")
                /\ UNCHANGED <<aOffer, aTrace>>
    /\ UNCHANGED <<answer, aLocalDesc, aRemoteDesc, aOut, aLine, aMalformed>>
    /\ UNCHANGED <<oVars, oChan, i2r, r2i, pingVars, hbVars, foreign, clock, logVars>>

\* pc.set_remote_description(offer).await?: with nothing set yet, the
\* library takes an offer and refuses an answer
AnswerSetRemote ==
    /\ apc = "set_remote"
    /\ IF aOffer.type = "offer"
       THEN /\ aRemoteDesc' = aOffer
            /\ apc' = "create_answer"
            /\ aTrace' = Append(aTrace, "set_remote")
            /\ UNCHANGED aChan
       ELSE /\ AnswerStop("exit_err")
            /\ UNCHANGED <<aRemoteDesc, aTrace>>
    /\ UNCHANGED <<answer, aLocalDesc, aOut, aLine, aMalformed, aOffer>>
    /\ UNCHANGED <<oVars, oChan, i2r, r2i, pingVars, hbVars, foreign, clock, logVars>>

\* The mutant of AnswerCreate: the answer is made before the offer is in.
AnswerCreateEarly(bodies) ==
    /\ apc \in {"read_line", "create_answer"}
    /\ \E s \in bodies : answer' = [type |-> "answer", sdp |-> s]
    /\ apc' = "set_local"
    /\ aTrace' = Append(aTrace, "create_answer")
    /\ UNCHANGED <<aLocalDesc, aRemoteDesc, aOut, aLine, aMalformed, aOffer>>
    /\ UNCHANGED <<oVars, chanVars, pingVars, hbVars, foreign, clock, logVars>>

\* pc.create_answer(None).await?, the body one of bodies
AnswerCreate(bodies) ==
    /\ apc = "create_answer"
    /\ \E s \in bodies : answer' = [type |-> "answer", sdp |-> s]
    /\ apc' = "set_local"
    /\ aTrace' = Append(aTrace, "create_answer")
    /\ UNCHANGED <<aLocalDesc, aRemoteDesc, aOut, aLine, aMalformed, aOffer>>
    /\ UNCHANGED <<oVars, chanVars, pingVars, hbVars, foreign, clock, logVars>>

\* pc.set_local_description(answer.clone()).await?
AnswerSetLocal ==
    /\ apc = "set_local"
    /\ aLocalDesc' = answer
    /\ apc' = "emit"
    /\ aTrace' = Append(aTrace, "set_local")
    /\ UNCHANGED <<answer, aRemoteDesc, aOut, aLine, aMalformed, aOffer>>
    /\ UNCHANGED <<oVars, chanVars, pingVars, hbVars, foreign, clock, logVars>>

\* The mutant of AnswerEmit: the answer is never printed.
AnswerEmitSilent ==
    /\ apc = "emit"
    /\ apc' = "wait"
    /\ aTrace' = Append(aTrace, "emit")
    /\ UNCHANGED <<answer, aLocalDesc, aRemoteDesc, aOut, aLine, aMalformed, aOffer>>
    /\ UNCHANGED <<oVars, chanVars, pingVars, hbVars, foreign, clock, logVars>>

\* println!("{}", base64::encode(serde_json::to_string(&answer)?))
AnswerEmit ==
    /\ apc = "emit"
    /\ aOut' = Append(aOut, EncodeDescriptor(answer) \o <<NL>>)
    /\ apc' = "wait"
    /\ aTrace' = Append(aTrace, "emit")
    /\ UNCHANGED <<answer, aLocalDesc, aRemoteDesc, aLine, aMalformed, aOffer>>
    /\ UNCHANGED <<oVars, chanVars, pingVars, hbVars, foreign, clock, logVars>>

\* the ? of a library call of the Responder's main
AnswerLibraryError ==
    /\ apc \in {"set_remote", "create_answer", "set_local"}
    /\ AnswerStop("exit_err")
    /\ UNCHANGED <<answer, aLocalDesc, aRemoteDesc, aOut, aLine, aMalformed, aOffer, aTrace>>
    /\ UNCHANGED <<oVars, oChan, i2r, r2i, pingVars, hbVars, foreign, clock, logVars>>

\* tokio::signal::ctrl_c().await?; Ok(())
AnswerInterrupt ==
    /\ AAlive
    /\ AnswerStop(IF apc = "wait" THEN "exit_ok" ELSE "killed")
    /\ UNCHANGED <<answer, aLocalDesc, aRemoteDesc, aOut, aLine, aMalformed, aOffer, aTrace>>
    /\ UNCHANGED <<oVars, oChan, i2r, r2i, pingVars, hbVars, foreign, clock, logVars>>

\* ------------------------------------------------------------ the channel
\* Both descriptions are applied on both sides and both processes wait: the
\* library connects and the data channel opens.
Connected ==
    /\ opc = "wait" /\ apc = "wait"
    /\ oRemoteDesc # NoDesc /\ oRemoteDesc = aLocalDesc
    /\ aRemoteDesc # NoDesc /\ aRemoteDesc = oLocalDesc

\* channel.send: an error on a channel that is not open; on an open one the
\* frame is queued, or the send fails
SendResults(chan, queue) ==
    IF chan # "open" THEN {"err"}
    ELSE IF Len(queue) < MaxQueue THEN {"ok", "err"} ELSE {"err"}

\* dc.on_open fires: println!("DataChannel open, sending pings..."); loop
OfferOnOpen ==
    /\ Connected
    /\ oChan = "connecting"
    /\ oChan' = "open"
    /\ pingPc' = "send"
    /\ UNCHANGED <<oVars, aVars, aChan, i2r, r2i, pingFailed, lastPing>>
    /\ UNCHANGED <<hbVars, foreign, clock, logVars>>

\* pc.on_data_channel fires for the channel the peer announced: the heartbeat
\* task is spawned and on_message set. The handler does not wait for the
\* channel's open event, and the channel is not open yet.
AnswerOnDataChannel ==
    /\ Connected
    /\ aChan = "connecting"
    /\ hbPc = "idle"
    /\ hbPc' = "send"
    /\ UNCHANGED <<oVars, aVars, chanVars, hbFailed, hbOthers>>
    /\ UNCHANGED <<pingVars, foreign, clock, logVars>>

\* the library opens the announced channel once the handler has returned
AnswerChannelOpen ==
    /\ Connected
    /\ aChan = "connecting"
    /\ hbPc # "idle"
    /\ aChan' = "open"
    /\ UNCHANGED <<oVars, aVars, oChan, i2r, r2i, pingVars, hbVars, foreign, clock, logVars>>

\* pc.on_data_channel fires again, for a further channel of the remote peer:
\* the handler spawns one more heartbeat task, on that channel
AnswerOnDataChannelAgain ==
    /\ AAlive
    /\ apc = "wait"
    /\ aChan = "open"
    /\ foreign < MaxForeign
    /\ hbOthers' = hbOthers + 1
    /\ foreign' = foreign + 1
    /\ UNCHANGED <<oVars, aVars, chanVars, pingVars, hbPc, hbFailed, clock, logVars>>

\* a send of a heartbeat task of a further channel fails: eprintln!; break
OtherHeartbeatSendErr ==
    /\ AAlive
    /\ hbOthers > 0
    /\ hbOthers' = hbOthers - 1
    /\ UNCHANGED <<oVars, aVars, chanVars, pingVars, hbPc, hbFailed, foreign, clock, logVars>>

\* the library closes the Initiator's channel: the peer process is gone
OfferChannelClosed ==
    /\ OAlive
    /\ ~AAlive
    /\ oChan \in {"connecting", "open"}
    /\ oChan' = "closed"
    /\ UNCHANGED <<oVars, aVars, aChan, i2r, r2i, pingVars, hbVars, foreign, clock, logVars>>

\* the library closes the Responder's channel: the peer process is gone
AnswerChannelClosed ==
    /\ AAlive
    /\ ~OAlive
    /\ aChan \in {"connecting", "open"}
    /\ aChan' = "closed"
    /\ UNCHANGED <<oVars, aVars, oChan, i2r, r2i, pingVars, hbVars, foreign, clock, logVars>>

\* a remote endpoint that is not the demo sends a frame to the Initiator
ForeignToInitiator ==
    /\ foreign < MaxForeign
    /\ oChan = "open"
    /\ Len(r2i) < MaxQueue
    /\ \E f \in ForeignFrames : r2i' = Append(r2i, f)
    /\ foreign' = foreign + 1
    /\ UNCHANGED <<oVars, aVars, oChan, aChan, i2r, pingVars, hbVars, clock, logVars>>

\* a remote endpoint that is not the demo sends a frame to the Responder
ForeignToResponder ==
    /\ foreign < MaxForeign
    /\ aChan = "open"
    /\ Len(i2r) < MaxQueue
    /\ \E f \in ForeignFrames : i2r' = Append(i2r, f)
    /\ foreign' = foreign + 1
    /\ UNCHANGED <<oVars, aVars, oChan, aChan, r2i, pingVars, hbVars, clock, logVars>>

\* Instant::now(): the clock does not run backwards
NowReadings == {t \in ClockReadings : t >= clock}

\* ------------------------------------------------ Initiator: steady state
\* let now = Instant::now().elapsed().as_nanos().to_le_bytes(): the time
\* between the two calls, not the clock's reading
PingFrame(elapsed) == ToLeBytes(elapsed)

\* one turn of the loop whose send succeeds, through the sleep of a second
PingSendOk ==
    /\ OAlive
    /\ pingPc = "send"
    /\ "ok" \in SendResults(oChan, i2r)
    /\ \E t \in NowReadings, e \in ElapsedReadings :
        /\ clock' = t
        /\ i2r' = Append(i2r, PingFrame(e))
        /\ lastPing' = [frame |-> PingFrame(e), clock |-> t]
    /\ pingPc' = "send"
    /\ UNCHANGED <<oVars, aVars, oChan, aChan, r2i, pingFailed>>
    /\ UNCHANGED <<hbVars, foreign, logVars>>

\* The mutant of PingSendErr: the error is printed and the loop goes on.
PingSendErrNoBreak ==
    /\ OAlive
    /\ pingPc = "send"
    /\ \E t \in NowReadings, e \in ElapsedReadings :
        /\ clock' = t
        /\ lastPing' = [frame |-> PingFrame(e), clock |-> t]
    /\ pingPc' = "send"
    /\ pingFailed' = TRUE
    /\ UNCHANGED <<oVars, aVars, chanVars, hbVars, foreign, logVars>>

\* The mutant of PingSendErr: the failing sender opens the session anew.
PingSendErrReconnect ==
    /\ OAlive
    /\ pingPc = "send"
    /\ \E t \in NowReadings, e \in ElapsedReadings :
        /\ clock' = t
        /\ lastPing' = [frame |-> PingFrame(e), clock |-> t]
    /\ pingPc' = "idle"
    /\ oChan' = "connecting"
    /\ pingFailed' = TRUE
    /\ UNCHANGED <<oVars, aVars, aChan, i2r, r2i, hbVars, foreign, logVars>>

\* The mutant of PingSendErr: the loop outlives the main function.
PingSendErrDetached ==
    /\ pingPc = "send"
    /\ \E t \in NowReadings, e \in ElapsedReadings :
        /\ clock' = t
        /\ lastPing' = [frame |-> PingFrame(e), clock |-> t]
    /\ pingPc' = "stopped"
    /\ pingFailed' = TRUE
    /\ UNCHANGED <<oVars, aVars, chanVars, hbVars, foreign, logVars>>

\* one turn of the loop whose send fails: eprintln!("send error"); break
PingSendErr ==
    /\ OAlive
    /\ pingPc = "send"
    /\ \E t \in NowReadings, e \in ElapsedReadings :
        /\ clock' = t
        /\ lastPing' = [frame |-> PingFrame(e), clock |-> t]
    /\ pingPc' = "stopped"
    /\ pingFailed' = TRUE
    /\ UNCHANGED <<oVars, aVars, chanVars, hbVars, foreign, logVars>>

\* "RTT: " and " ms", "Received: "
TextRtt == <<82, 84, 84, COLON, SPACE>>
TextMs == <<SPACE, 109, 115>>
TextReceived == <<82, 101, 99, 101, 105, 118, 101, 100, COLON, SPACE>>

\* The mutant of InitiatorHandle: every frame of 16 bytes or fewer is timed.
InitiatorHandleAtMost(data, now) ==
    IF Len(data) <= FrameLen
    THEN LET sl == Slice16(data)
         IN  IF ~sl.ok THEN [kind |-> "panic", frame |-> data]
             ELSE LET rtt == SaturatingSub(now, FromLeBytes(sl.val))
                  IN  [kind |-> "timing", frame |-> data, now |-> now, rtt |-> rtt,
                       printed |-> TextRtt \o FormatMs(rtt) \o TextMs]
    ELSE [kind |-> "text", frame |-> data,
          printed |-> TextReceived \o FromUtf8Lossy(data)]

\* the body of the Initiator's on_message callback, now the value it reads
\* from Instant::now().elapsed()
InitiatorHandle(data, now) ==
    IF Len(data) = FrameLen
    THEN LET sl == Slice16(data)
         IN  IF ~sl.ok THEN [kind |-> "panic", frame |-> data]
             ELSE LET rtt == SaturatingSub(now, FromLeBytes(sl.val))
                  IN  [kind |-> "timing", frame |-> data, now |-> now, rtt |-> rtt,
                       printed |-> TextRtt \o FormatMs(rtt) \o TextMs]
    ELSE [kind |-> "text", frame |-> data,
          printed |-> TextReceived \o FromUtf8Lossy(data)]

\* the channel delivers the next frame to the Initiator's callback
InitiatorOnMessage ==
    /\ OAlive
    /\ oChan = "open"
    /\ r2i # <<>>
    /\ \E t \in NowReadings, e \in ElapsedReadings :
        /\ clock' = t
        /\ last' = [who |-> "initiator", did |-> InitiatorHandle(Head(r2i), e)]
    /\ r2i' = Tail(r2i)
    /\ UNCHANGED <<oVars, aVars, oChan, aChan, i2r, pingVars, hbVars, foreign>>

\* ------------------------------------------------ Responder: steady state
\* format!("Hello at {:?}", Instant::now())
HeartbeatFrame(sec) == HelloAt \o InstantDebug(sec)

\* The mutant of HeartbeatSendOk: the heartbeat takes the place of what is
\* queued for the Initiator.
HeartbeatSendOverwrite ==
    /\ AAlive
    /\ hbPc = "send"
    /\ aChan = "open"
    /\ \E t \in AnswerInstants : r2i' = <<HeartbeatFrame(t)>>
    /\ hbPc' = "send"
    /\ UNCHANGED <<oVars, aVars, oChan, aChan, i2r, hbFailed, hbOthers>>
    /\ UNCHANGED <<pingVars, foreign, clock, logVars>>

\* one turn of the heartbeat loop whose send succeeds, through the sleep
HeartbeatSendOk ==
    /\ AAlive
    /\ hbPc = "send"
    /\ "ok" \in SendResults(aChan, r2i)
    /\ \E t \in AnswerInstants : r2i' = Append(r2i, HeartbeatFrame(t))
    /\ hbPc' = "send"
    /\ UNCHANGED <<oVars, aVars, oChan, aChan, i2r, hbFailed, hbOthers>>
    /\ UNCHANGED <<pingVars, foreign, clock, logVars>>

\* one turn of the heartbeat loop whose send fails: eprintln!; break
HeartbeatSendErr ==
    /\ AAlive
    /\ hbPc = "send"
    /\ hbPc' = "stopped"
    /\ hbFailed' = TRUE
    /\ UNCHANGED <<oVars, aVars, chanVars, pingVars, hbOthers, foreign, clock, logVars>>

TextReplyError == <<114, 101, 112, 108, 121, SPACE, 115, 101, 110, 100, SPACE,
                    101, 114, 114, 111, 114>>

\* The mutant of ResponderHandle: the echo is rebuilt from the decoded value
\* in 8 bytes instead of cloned.
ResponderHandleReencode(data, result) ==
    IF Len(data) = FrameLen
    THEN [kind |-> "timing", frame |-> data,
          tried |-> <<LeBytes(FromLeBytes(data), 8)>>,
          sent |-> IF result = "ok" THEN <<LeBytes(FromLeBytes(data), 8)>> ELSE <<>>,
          printed |-> IF result = "ok" THEN <<>> ELSE TextReplyError]
    ELSE [kind |-> "text", frame |-> data, tried |-> <<>>, sent |-> <<>>,
          printed |-> TextReceived \o FromUtf8Lossy(data)]

\* The mutant of ResponderHandle: the frame is taken and nothing is sent.
ResponderHandleSwallow(data, result) ==
    IF Len(data) = FrameLen
    THEN [kind |-> "timing", frame |-> data, tried |-> <<data>>, sent |-> <<>>,
          printed |-> IF result = "ok" THEN <<>> ELSE TextReplyError]
    ELSE [kind |-> "text", frame |-> data, tried |-> <<>>, sent |-> <<>>,
          printed |-> TextReceived \o FromUtf8Lossy(data)]

\* the body of the Responder's on_message callback, result what val.send
\* returns: tried the frames passed to send, sent the frames it put on the
\* channel
ResponderHandle(data, result) ==
    IF Len(data) = FrameLen
    THEN [kind |-> "timing", frame |-> data,
          tried |-> <<data>>,
          sent |-> IF result = "ok" THEN <<data>> ELSE <<>>,
          printed |-> IF result = "ok" THEN <<>> ELSE TextReplyError]
    ELSE [kind |-> "text", frame |-> data, tried |-> <<>>, sent |-> <<>>,
          printed |-> TextReceived \o FromUtf8Lossy(data)]

\* The mutant of ResponderOnMessage: a frame whose echo failed is kept and
\* handed to the callback again.
ResponderOnMessageRetry ==
    /\ AAlive
    /\ aChan = "open"
    /\ i2r # <<>>
    /\ \E result \in SendResults(aChan, r2i) :
        LET did == ResponderHandle(Head(i2r), result)
        IN  /\ last' = [who |-> "responder", did |-> did]
            /\ r2i' = r2i \o did.sent
            /\ i2r' = IF did.printed = TextReplyError THEN i2r ELSE Tail(i2r)
    /\ UNCHANGED <<oVars, aVars, oChan, aChan, pingVars, hbVars, foreign, clock>>

\* the channel delivers the next frame to the Responder's callback
ResponderOnMessage ==
    /\ AAlive
    /\ aChan = "open"
    /\ i2r # <<>>
    /\ \E result \in SendResults(aChan, r2i) :
        LET did == ResponderHandle(Head(i2r), result)
        IN  /\ last' = [who |-> "responder", did |-> did]
            /\ r2i' = r2i \o did.sent
    /\ i2r' = Tail(i2r)
    /\ UNCHANGED <<oVars, aVars, oChan, aChan, pingVars, hbVars, foreign, clock>>

\* ------------------------------------------------------------ specification
OfferCreateOffer == OfferCreate(OfferSdps)
OfferReadLine == OfferRead(Pastes(Range(aOut) \cup Range(oOut)))
AnswerReadLine == AnswerRead(Pastes(Range(oOut) \cup Range(aOut)))
AnswerCreateAnswer == AnswerCreate(AnswerSdps)

Handshake ==
    \/ OfferSetLocal \/ OfferEmit \/ OfferDecode \/ OfferSetRemote
    \/ OfferLibraryError \/ OfferInterrupt
    \/ AnswerDecode \/ AnswerSetRemote \/ AnswerSetLocal \/ AnswerEmit
    \/ AnswerLibraryError \/ AnswerInterrupt

Links ==
    \/ OfferOnOpen \/ AnswerOnDataChannel \/ AnswerChannelOpen
    \/ OfferChannelClosed \/ AnswerChannelClosed

Channel == Links \/ ForeignToInitiator \/ ForeignToResponder

Probe ==
    \/ PingSendOk \/ PingSendErr \/ InitiatorOnMessage
    \/ HeartbeatSendOk \/ HeartbeatSendErr \/ ResponderOnMessage

\* the two processes of one session, from their start
Next ==
    \/ OfferCreateOffer \/ OfferReadLine \/ AnswerReadLine \/ AnswerCreateAnswer
    \/ Handshake \/ Channel \/ Probe

Spec == Init /\ [][Next]_vars

\* the handshake of the two processes over every descriptor body and paste,
\* the answer's body the one of the offer it answers
OfferCreateAny == OfferCreate(AnySdps)
OfferReadAny == OfferRead(AnyPastes(Range(aOut) \cup Range(oOut)))
AnswerReadAny == AnswerRead(AnyPastes(Range(oOut) \cup Range(aOut)))
AnswerCreateAny == AnswerCreate({aRemoteDesc.sdp})

NextHandshake ==
    \/ OfferCreateAny \/ OfferReadAny \/ AnswerReadAny \/ AnswerCreateAny
    \/ Handshake

SpecHandshake == Init /\ [][NextHandshake]_vars

\* the two processes when each line printed is pasted to the other process as
\* it is, and the remote peer sends nothing but what the Initiator sends
OfferReadAnswer == OfferRead(Range(aOut))
AnswerReadOffer == AnswerRead(Range(oOut))

NextLive ==
    \/ OfferCreateOffer \/ OfferReadAnswer \/ AnswerReadOffer \/ AnswerCreateAnswer
    \/ Handshake \/ Links \/ Probe

\* The main function of a process runs on: it does not stay for ever at a
\* step it can take. This is weak fairness of each step of main, written on
\* the position of main; the read can be taken once the operator has a
\* printed line to paste.
MainSteps == {"create_offer", "create_answer", "set_local", "emit", "decode", "set_remote"}

MainRunsOn ==
    /\ \A pc \in MainSteps : []<>(opc # pc) /\ []<>(apc # pc)
    /\ []<>(opc # "read_line" \/ aOut = <<>>)
    /\ []<>(apc # "read_line" \/ oOut = <<>>)

\* the library opens the channel it announced and hands every frame that
\* has arrived to the callback
Fairness ==
    /\ MainRunsOn
    /\ WF_vars(Links)
    /\ WF_vars(ResponderOnMessage) /\ WF_vars(InitiatorOnMessage)

SpecLive == Init /\ [][NextLive]_vars /\ Fairness

\* the same, the remote peer free to announce further data channels
NextChannels == NextLive \/ AnswerOnDataChannelAgain \/ OtherHeartbeatSendErr

SpecChannels == Init /\ [][NextChannels]_vars

\* ------------------------------------------------------------ Session.state
\* The Session state of the specification, read off a process and its
\* channel: Closed once the process has ended or the channel has closed,
\* Open while the channel is open, Handshaking before.
SessionOf(alive, chan) ==
    IF ~alive \/ chan = "closed" THEN "Closed"
    ELSE IF chan = "open" THEN "Open" ELSE "Handshaking"

SessionO == SessionOf(OAlive, oChan)
SessionA == SessionOf(AAlive, aChan)

Rank(state) ==
    CASE state = "Handshaking" -> 0 [] state = "Open" -> 1 [] state = "Closed" -> 2

IsPrefix(s, t) == Len(s) <= Len(t) /\ s = SubSeq(t, 1, Len(s))

\* a step of the Responder's receive callback on a 16-byte frame
EchoStep == i2r # <<>> /\ i2r' = Tail(i2r) /\ Len(Head(i2r)) = FrameLen
\* a step of the Initiator's receive callback
ReportStep == r2i # <<>> /\ r2i' = Tail(r2i)

\* ------------------------------------------------------------------ claims

\* C1 as stated: for every 16-byte frame f delivered to the Responder's
\* receive callback, exactly one Reply, byte-identical to f, is put on the
\* channel. It fails when val.send returns an error: no Reply is emitted.
C1_ExactlyOneReply == [][EchoStep => r2i' = Append(r2i, Head(i2r))]_vars

\* C1 amended: for every 16-byte frame f delivered to the Responder's receive
\* callback, the callback passes exactly one frame to send, byte-identical
\* to f; when that send succeeds exactly that one Reply is put on the
\* channel, and when it fails none is and the error is printed.
C1_OneSendOfTheSameBytes ==
    [][EchoStep =>
        /\ last'.who = "responder"
        /\ last'.did.frame = Head(i2r)
        /\ last'.did.tried = <<Head(i2r)>>
        /\ \/ last'.did.printed = <<>> /\ r2i' = Append(r2i, Head(i2r))
           \/ last'.did.printed = TextReplyError /\ r2i' = r2i]_vars

\* C1 witness: a 16-byte frame was delivered and its echo is on the channel.
C1_Witness ==
    /\ last.who = "responder"
    /\ last.did.kind = "timing"
    /\ last.did.sent = <<last.did.frame>>
    /\ r2i # <<>>
    /\ r2i[Len(r2i)] = last.did.frame

\* C2 as stated: a Ping sent at clock reading t carries timestamp_ns = t, and
\* when its byte-identical echo is received at clock reading t + d the RTT
\* reported is d. The code sends and subtracts Instant::now().elapsed().
C2_RttIsClockDifference ==
    [][(ReportStep /\ last'.who = "initiator" /\ last'.did.kind = "timing"
            /\ last'.did.frame = lastPing.frame)
        => /\ FromLeBytes(lastPing.frame) = lastPing.clock
           /\ last'.did.rtt = clock' - lastPing.clock]_vars

\* C3: on both roles a frame of exactly 16 bytes is handled as a timing frame
\* (Initiator: an RTT is printed; Responder: the frame is passed to send),
\* a frame of any other length is handled as Text and printed with invalid
\* bytes replaced, and no frame makes the callback fail.
C3_ClassifiedByLength ==
    last.who # None =>
        /\ last.did.kind \in {"timing", "text"}
        /\ last.did.kind = "timing" <=> Len(last.did.frame) = FrameLen
        /\ last.did.kind = "text" =>
              last.did.printed = TextReceived \o FromUtf8Lossy(last.did.frame)
        /\ (last.did.kind = "timing" /\ last.who = "initiator") =>
              last.did.printed = TextRtt \o FormatMs(last.did.rtt) \o TextMs
        /\ (last.did.kind = "timing" /\ last.who = "responder") =>
              last.did.tried = <<last.did.frame>>

\* C3 witness: the Initiator's callback handled an empty frame as Text.
C3_Witness ==
    /\ last.who = "initiator"
    /\ last.did.frame = <<>>
    /\ last.did.kind = "text"

\* C4: every RTT the Initiator computes is max(0, now - embedded timestamp),
\* now the value its callback read: never negative, and 0 when the embedded
\* timestamp is the larger.
C4_RttSaturates ==
    (last.who = "initiator" /\ last.did.kind = "timing") =>
        LET sent == FromLeBytes(last.did.frame)
        IN  /\ last.did.rtt >= 0
            /\ last.did.now >= sent => last.did.rtt = last.did.now - sent
            /\ last.did.now < sent => last.did.rtt = 0

\* C4 witness: an RTT was computed from a timestamp larger than now.
C4_Witness ==
    /\ last.who = "initiator"
    /\ last.did.kind = "timing"
    /\ FromLeBytes(last.did.frame) > last.did.now

\* either process has run its decode step on the line it read
ODecodeDone == "decode" \in Range(oTrace) \/ (opc = "exit_err" /\ oTrace[Len(oTrace)] = "read_line")
ADecodeDone == "decode" \in Range(aTrace) \/ (apc = "exit_err" /\ aTrace = <<"read_line">>)

\* C5: for every descriptor d, decoding the line printed for d, as the other
\* process reads, trims and decodes it, gives d back.
C5_RoundTrip ==
    \A d \in {offer, answer} \ {NoDesc} :
        /\ (ADecodeDone /\ Trim(aLine) = EncodeDescriptor(d)) =>
              "decode" \in Range(aTrace) /\ aOffer = d
        /\ (ODecodeDone /\ Trim(oLine) = EncodeDescriptor(d)) =>
              "decode" \in Range(oTrace) /\ oAnswer = d

\* C5 witness: the Initiator decoded the answer, whose body has a quote and a
\* control character, from a line that is not the printed line itself.
C5_Witness ==
    /\ "decode" \in Range(oTrace)
    /\ oAnswer = answer
    /\ answer.sdp = <<QUOTE, 1>>
    /\ oLine # EncodeDescriptor(answer) \o <<NL>>

\* the line a process read does not decode to a descriptor
OBadLine == "read_line" \in Range(oTrace) /\ oMalformed
ABadLine == "read_line" \in Range(aTrace) /\ aMalformed

Count(q, x) == Cardinality({i \in 1..Len(q) : q[i] = x})

\* C6: in either role, when the line read does not decode to a descriptor the
\* handshake aborts: the process is at the decode step or has ended with an
\* error (or was killed), no remote description is applied, the line was
\* read once, and no channel is open.
C6_BadLineAborts ==
    /\ OBadLine =>
          /\ opc \in {"decode", "exit_err", "killed"}
          /\ oRemoteDesc = NoDesc
          /\ Count(oTrace, "read_line") = 1
          /\ oChan # "open" /\ aChan # "open"
    /\ ABadLine =>
          /\ apc \in {"decode", "exit_err", "killed"}
          /\ aRemoteDesc = NoDesc
          /\ Count(aTrace, "read_line") = 1
          /\ oChan # "open" /\ aChan # "open"

\* C6 witness: the Initiator read the answer cut short and ended with an error.
C6_Witness ==
    /\ OBadLine
    /\ opc = "exit_err"
    /\ aOut # <<>>
    /\ oLine = SubSeq(aOut[1], 1, Len(aOut[1]) - 2) \o <<NL>>

IsHeartbeat(f) == \E t \in AnswerInstants : f = HeartbeatFrame(t)

\* C7: after a send of a sender loop has failed that loop passes nothing to
\* send again; the failure changes neither its process, its channel nor the
\* peer's loop; and the receive callback of the process still takes every
\* frame that arrives while the channel is open.
C7_SendFailureContained ==
    /\ [][/\ pingFailed => (pingFailed' /\ lastPing' = lastPing)
          /\ hbFailed =>
                /\ hbFailed'
                /\ Len(r2i') > Len(r2i) => ~IsHeartbeat(r2i'[Len(r2i')])
          /\ (~pingFailed /\ pingFailed') =>
                /\ opc' = opc /\ oChan' = oChan
                /\ apc' = apc /\ hbPc' = hbPc /\ hbFailed' = hbFailed
          /\ (~hbFailed /\ hbFailed') =>
                /\ apc' = apc /\ aChan' = aChan
                /\ opc' = opc /\ pingPc' = pingPc /\ pingFailed' = pingFailed]_vars
    /\ []((pingFailed /\ OAlive /\ oChan = "open" /\ r2i # <<>>)
            => ENABLED InitiatorOnMessage)
    /\ []((hbFailed /\ AAlive /\ aChan = "open" /\ i2r # <<>>)
            => ENABLED ResponderOnMessage)

\* C7 witness: the Ping loop has failed while the channel is open, a frame
\* waits for the Initiator's callback and the heartbeat loop still runs.
C7_Witness ==
    /\ pingFailed /\ OAlive /\ oChan = "open" /\ r2i # <<>>
    /\ AAlive /\ hbPc = "send" /\ ~hbFailed

\* C8: in either role the Session state only moves forward in the order
\* Handshaking < Open < Closed.
C8_StateMonotonic ==
    [][/\ Rank(SessionO') >= Rank(SessionO)
       /\ Rank(SessionA') >= Rank(SessionA)]_vars

\* C8 witness: the Initiator's session is Closed after it was Open (a Ping
\* was sent), the Responder's is still Open.
C8_Witness ==
    /\ SessionO = "Closed" /\ lastPing # NoPing
    /\ SessionA = "Open"

OfferOrder == <<"create_offer", "set_local", "emit", "read_line", "decode", "set_remote">>
AnswerOrder == <<"read_line", "decode", "set_remote", "create_answer", "set_local", "emit">>

\* C9: the Initiator creates the offer, sets it as local description, prints
\* its encoding, reads one line, decodes it and applies it, in this order;
\* it reads and applies nothing before its offer is set and printed.
C9_InitiatorOrder ==
    /\ IsPrefix(oTrace, OfferOrder)
    /\ ("read_line" \in Range(oTrace) \/ oLine # <<>> \/ oRemoteDesc # NoDesc) =>
          /\ offer # NoDesc
          /\ oLocalDesc = offer
          /\ Len(oOut) = 1
    /\ oRemoteDesc # NoDesc => (oRemoteDesc = oAnswer /\ "decode" \in Range(oTrace))

\* C9 witness: the Initiator has done the whole handshake.
C9_Witness == oTrace = OfferOrder /\ oRemoteDesc # NoDesc

\* C10: the Responder reads one line, decodes it and applies it, then creates
\* the answer, sets it as local description and prints its encoding, in this
\* order; it creates and prints no answer unless an offer was applied.
C10_ResponderOrder ==
    /\ IsPrefix(aTrace, AnswerOrder)
    /\ (answer # NoDesc \/ aLocalDesc # NoDesc \/ aOut # <<>>) =>
          /\ aRemoteDesc # NoDesc
          /\ aRemoteDesc.type = "offer"
          /\ aRemoteDesc = aOffer
    /\ aOut # <<>> => (aLocalDesc = answer /\ Len(aOut) = 1)

\* C10 witness: the Responder has done the whole handshake.
C10_Witness == aTrace = AnswerOrder /\ aOut # <<>>

\* C11: the interrupt can arrive in every phase of either process and ends
\* it; a process that has ended reads no line, takes no further step of its
\* handshake and passes nothing to send (the Ping loop makes no attempt, no
\* heartbeat is queued).
C11_CancellationStops ==
    /\ [][/\ OfferInterrupt => ~OAlive'
          /\ AnswerInterrupt => ~AAlive'
          /\ ~OAlive =>
                /\ opc' = opc /\ oLine' = oLine /\ oTrace' = oTrace
                /\ oRemoteDesc' = oRemoteDesc
                /\ lastPing' = lastPing /\ pingFailed' = pingFailed
          /\ ~AAlive =>
                /\ apc' = apc /\ aLine' = aLine /\ aTrace' = aTrace
                /\ aRemoteDesc' = aRemoteDesc
                /\ hbFailed' = hbFailed
                /\ Len(r2i') > Len(r2i) => ~IsHeartbeat(r2i'[Len(r2i')])]_vars
    /\ [](OAlive => ENABLED OfferInterrupt)
    /\ [](AAlive => ENABLED AnswerInterrupt)

\* C11 witness: the interrupt ended both processes in steady state, the Ping
\* loop and the heartbeat loop running and unfailed.
C11_Witness ==
    /\ opc = "exit_ok" /\ pingPc = "send" /\ ~pingFailed /\ lastPing # NoPing
    /\ apc = "exit_ok" /\ hbPc = "send" /\ ~hbFailed

\* C12 as stated: in both roles the periodic sender is started when the
\* channel signals Open and not earlier: while a Session is Handshaking its
\* loop has not started and nothing was passed to send. The Responder spawns
\* its heartbeat task in on_data_channel, before the channel is open.
C12_SenderStartsAtOpen ==
    /\ SessionO = "Handshaking" =>
          (pingPc = "idle" /\ lastPing = NoPing /\ ~pingFailed)
    /\ SessionA = "Handshaking" => (hbPc = "idle" /\ ~hbFailed)

\* the sender tasks of a process that are in their loop
ActivePings == IF OAlive /\ pingPc = "send" THEN 1 ELSE 0
ActiveHeartbeats ==
    IF AAlive THEN (IF hbPc = "send" THEN 1 ELSE 0) + hbOthers ELSE 0

\* C13 as stated: in every reachable state each Session has at most one
\* active periodic sender task, whatever open and data-channel events the
\* transport delivers. The Responder spawns a heartbeat task for every
\* data-channel event.
C13_OneSenderTask == ActivePings <= 1 /\ ActiveHeartbeats <= 1

\* the Pings in flight: echoed and on their way back, or on their way out
IsTiming(f) == Len(f) = FrameLen
PendingBack == SelectSeq(r2i, IsTiming)
PendingOut == SelectSeq(i2r, IsTiming)
Pending == PendingBack \o PendingOut

\* the callback that ran last is the Responder's and its echo send failed
EchoFailed == last.who = "responder" /\ last.did.printed = TextReplyError

\* C14 as stated: while both channels are open and no send has failed, at
\* most one Ping is outstanding: a Ping is sent only after the Reply to the
\* one before was received. The loop sends every second and waits for no
\* Reply.
C14_OnePingOutstanding ==
    (/\ OAlive /\ AAlive /\ oChan = "open" /\ aChan = "open"
     /\ ~pingFailed /\ ~hbFailed /\ ~EchoFailed)
        => Len(Pending) <= 1

\* C15 as stated: once a Ping send has failed the Initiator's Session is
\* Closed, so that nothing is sent or handled in it afterwards. The loop only
\* breaks: channel, callback and process stay as they were.
C15_SendFailureCloses == pingFailed => SessionO = "Closed"

\* both processes have left the handshake, each with its own description as
\* local and the other's as remote
HandshakeDone ==
    /\ opc \in {"wait", "exit_ok"} /\ apc \in {"wait", "exit_ok"}
    /\ offer # NoDesc /\ answer # NoDesc
    /\ oLocalDesc = offer /\ oRemoteDesc = answer
    /\ aLocalDesc = answer /\ aRemoteDesc = offer

\* C16: when each printed line is pasted unmodified to the other process and
\* the processes are scheduled fairly, the handshake does not deadlock:
\* eventually both processes have left it with a local and a remote
\* description applied, unless a process was ended by an interrupt or by an
\* error of the library first.
C16_NoHandshakeDeadlock ==
    <>(HandshakeDone \/ opc \in {"exit_err", "killed"} \/ apc \in {"exit_err", "killed"})

\* C16 witness: both processes wait in steady state, each having read the
\* line the other printed.
C16_Witness ==
    /\ HandshakeDone
    /\ opc = "wait" /\ apc = "wait"
    /\ oLine = aOut[1] /\ aLine = oOut[1]

\* a step of the Initiator's callback on a 16-byte frame
ReplyStep == ReportStep /\ IsTiming(Head(r2i))

BothOpen == OAlive /\ AAlive /\ oChan = "open" /\ aChan = "open"

\* the callback that ran last is the Initiator's, reporting an RTT for f
Reported(f) ==
    last.who = "initiator" /\ last.did.kind = "timing" /\ last.did.frame = f

C19_EchoFailureDropsOnly ==
    /\ [][/\ (EchoFailed' /\ (EchoStep \/ last' # last)) =>
                /\ i2r # <<>>
                /\ last'.did.frame = Head(i2r)
                /\ last'.did.tried = <<Head(i2r)>>
                /\ i2r' = Tail(i2r)
                /\ r2i' = r2i
                /\ UNCHANGED <<apc, aChan, hbPc, hbFailed, oVars, oChan, pingVars>>
          /\ (hbPc = "send" /\ hbPc' # "send") => (~hbFailed /\ hbFailed')]_vars
    /\ []((EchoFailed /\ AAlive /\ aChan = "open" /\ i2r # <<>>)
            => ENABLED ResponderOnMessage)

\* C19 witness: an echo send has failed, the heartbeat loop runs unfailed
\* and the next Ping waits for the callback.
C19_Witness ==
    /\ EchoFailed
    /\ AAlive /\ aChan = "open"
    /\ hbPc = "send" /\ ~hbFailed
    /\ PendingOut # <<>>

====
